---------------------------- MODULE Spec2Model ----------------------------
(***************************************************************************)
(* State-machine model of the three scripts of the repository:             *)
(*   create_vector_search_index.py  (Index Provisioner)                    *)
(*   gen_text_embedding.py          (Seeder)                               *)
(*   vector_search_chatbot.py       (Interactive Search UI)                *)
(*                                                                         *)
(* Python strings that the code builds by concatenation or f-strings are   *)
(* sequences of string tokens (concatenation is \o); the text typed into   *)
(* the query box is a sequence of characters, so that str.strip() is       *)
(* computed and not assumed.  The embedding service and the vector store   *)
(* are external: each call to them either returns or raises, chosen        *)
(* nondeterministically.                                                   *)
(***************************************************************************)
EXTENDS Integers, Sequences, FiniteSets, TLC

(***************************************************************************)
(* Bounds of the model.                                                    *)
(***************************************************************************)
\* Largest number of entries the conversation may hold when a submission is
\* accepted by the model (the program itself has no such limit).
MaxHistory == 2

(***************************************************************************)
(* Values.                                                                 *)
(***************************************************************************)
\* Python's None where a string is expected (os.environ.get of an unset key).
Unset == "<unset>"

\* Python's None as the user side of a conversation entry.
None == <<"<None>">>

\* What an environment variable can hold at startup: unset, empty, a value.
EnvValues == {Unset, "", "value"}

\* What the user can type at the getpass prompt.
PromptInputs == {"", "secret"}

\* Exceptions an external call can raise, by their str().
Errors == {"timed out", "401 Unauthorized"}

\* Texts the user can have in the query box: nothing, blanks only, and a
\* word with blanks around it.
Queries ==
    { <<>>, <<"\t", " ">>, <<" ", "a", " ">> }

\* Seeds of the random generator behind uuid4().
UuidSeeds == {"r1", "r2"}

EnvVars ==
    { "AZURE_OPENAI_ENDPOINT", "AZURE_OPENAI_DEPLOYMENT_NAME",
      "AZURE_OPENAI_API_VERSION", "AZURE_OPENAI_API_KEY",
      "MONGODB_ATLAS_CLUSTER_URI" }

Scripts == {"provisioner", "seeder", "ui"}

(***************************************************************************)
(* Helpers on sequences.                                                   *)
(***************************************************************************)
Range(s) == { s[i] : i \in DOMAIN s }

IsPrefix(s, t) == Len(s) <= Len(t) /\ SubSeq(t, 1, Len(s)) = s

\* All sequences without repetition over S of length at most n.
RECURSIVE SeqsUpTo(_, _)
SeqsUpTo(S, n) ==
    IF n = 0 THEN { <<>> }
    ELSE LET shorter == SeqsUpTo(S, n - 1)
         IN  shorter \cup
             { Append(s, x) : s \in { t \in shorter : Len(t) = n - 1 },
                              x \in S }

NoRepeat(s) == \A i, j \in DOMAIN s : s[i] = s[j] => i = j

(***************************************************************************)
(* Python built-ins used by the scripts.                                   *)
(***************************************************************************)
\* Characters str.strip() removes.
Whitespace == {" ", "\t", "\n"}

RECURSIVE lstrip(_)
lstrip(s) ==
    IF s # <<>> /\ Head(s) \in Whitespace THEN lstrip(Tail(s)) ELSE s

RECURSIVE rstrip(_)
rstrip(s) ==
    IF s # <<>> /\ s[Len(s)] \in Whitespace
    THEN rstrip(SubSeq(s, 1, Len(s) - 1))
    ELSE s

\* str.strip()
strip(s) == rstrip(lstrip(s))

\* sep.join(names): the names with the separator between neighbours.
RECURSIVE join(_, _)
join(sep, names) ==
    IF names = <<>> THEN <<>>
    ELSE IF Len(names) = 1 THEN <<names[1]>>
    ELSE <<names[1], sep>> \o join(sep, Tail(names))

\* str(i) for the small naturals the scripts format.
str(i) == <<"0", "1", "2", "3", "4", "5", "6", "7", "8", "9", "10", "11">>[i + 1]

\* Mutant of Truthy: only an unset key counts as missing (var in os.environ).
Truthy_unset_only(v) == v # Unset

\* Truth value of os.environ.get(var): None and "" are both false.
Truthy(v) == v # Unset /\ v # ""

\* dict.get(key, default) on a document's metadata.
metadata_get(m, key, default) == IF key \in DOMAIN m THEN m[key] ELSE default


(***************************************************************************)
(* Program constants.                                                      *)
(***************************************************************************)
\* gen_text_embedding.py: required_vars
seeder_required_vars ==
    << "AZURE_OPENAI_ENDPOINT", "AZURE_OPENAI_DEPLOYMENT_NAME",
       "AZURE_OPENAI_API_VERSION", "MONGODB_ATLAS_CLUSTER_URI" >>

\* vector_search_chatbot.py: required_vars
ui_required_vars ==
    << "AZURE_OPENAI_ENDPOINT", "AZURE_OPENAI_DEPLOYMENT_NAME",
       "AZURE_OPENAI_API_VERSION", "AZURE_OPENAI_API_KEY",
       "MONGODB_ATLAS_CLUSTER_URI" >>

\* create_vector_search_index.py: the keys read with os.environ[...]
provisioner_subscripted_vars ==
    << "AZURE_OPENAI_ENDPOINT", "AZURE_OPENAI_DEPLOYMENT_NAME",
       "AZURE_OPENAI_API_VERSION" >>

\* gen_text_embedding.py: documents
documents ==
    << [page_content |-> "I had chocalate chip pancakes and scrambled eggs for breakfast this morning.",
        metadata |-> [source |-> "tweet"]],
       [page_content |-> "The weather forecast for tomorrow is cloudy and overcast, with a high of 62 degrees.",
        metadata |-> [source |-> "news"]],
       [page_content |-> "Building an exciting new project with LangChain - come check it out!",
        metadata |-> [source |-> "tweet"]],
       [page_content |-> "Robbers broke into the city bank and stole $1 million in cash.",
        metadata |-> [source |-> "news"]],
       [page_content |-> "Wow! That was an amazing movie. I can't wait to see it again.",
        metadata |-> [source |-> "tweet"]],
       [page_content |-> "Is the new iPhone worth the price? Read this review to find out.",
        metadata |-> [source |-> "website"]],
       [page_content |-> "The top 10 soccer players in the world right now.",
        metadata |-> [source |-> "website"]],
       [page_content |-> "LangGraph is the best framework for building stateful, agentic applications!",
        metadata |-> [source |-> "tweet"]],
       [page_content |-> "The stock market is down 500 points today due to fears of a recession.",
        metadata |-> [source |-> "news"]],
       [page_content |-> "I have a bad feeling I am going to get deleted :(",
        metadata |-> [source |-> "tweet"]] >>

\* vector_search_chatbot.py: num_results_slider
SliderMin == 1
SliderMax == 10
SliderDefault == 3

\* vector_search_chatbot.py: default of search_documents' num_results
DefaultNumResults == 3

\* vector_search_chatbot.py: get_welcome_message
get_welcome_message ==
    << << None,
          <<"Hello! I'm your vector search assistant. Ask me something about the documents in the database!">> >> >>

\* What the collection can hold when a script starts: nothing, or two
\* records written earlier, one of them without a source in its metadata.
StoredBefore ==
    { {},
      { [id |-> <<"uuid", "r0", 2>>, doc |-> documents[2]],
        [id |-> <<"uuid", "r0", 11>>, doc |-> [page_content |-> "Untitled note.",
                               metadata |-> [author |-> "anon"]]] } }

(***************************************************************************)
(* State.                                                                  *)
(***************************************************************************)
VARIABLES
    script,             \* which of the three scripts this process runs
    env0,               \* os.environ after load_dotenv(), as the process found it
    env,                \* os.environ now
    pc,                 \* position in the script body
    exitStatus,         \* <<>> while running, then <<status>> of the exit
    log,                \* ERROR records and uncaught-exception tracebacks written
    steps,              \* calls the script body has made, in order
    collection,         \* records stored in styva-demo.docs
    uuids,              \* Seeder: the ids generated for the documents
    upsert,             \* Seeder: the (documents, ids) handed to add_documents
    chatbot,            \* UI: value of the Chatbot component
    query_input,        \* UI: value of the Textbox component
    num_results_slider, \* UI: value of the Slider component
    call,               \* UI: the on_submit invocation in progress
    reply               \* UI: what similarity_search gave back to it

vars ==
    << script, env0, env, pc, exitStatus, log, steps, collection, uuids,
       upsert, chatbot, query_input, num_results_slider, call, reply >>

uiVars == << chatbot, query_input, num_results_slider, call, reply >>
seederVars == << uuids, upsert >>

NoCall == [stage |-> "idle"]
NoReply == [kind |-> "none", results |-> <<>>, error |-> ""]
NoUpsert == [documents |-> <<>>, ids |-> <<>>, sent |-> FALSE]

Init ==
    /\ script \in Scripts
    /\ env0 \in [EnvVars -> EnvValues]
    /\ env = env0
    /\ pc = "start"
    /\ exitStatus = <<>>
    /\ log = {}
    /\ steps = <<>>
    /\ collection \in StoredBefore
    /\ uuids = <<>>
    /\ upsert = NoUpsert
    /\ chatbot = <<>>
    /\ query_input = <<>>
    /\ num_results_slider = SliderDefault
    /\ call = NoCall
    /\ reply = NoReply

(***************************************************************************)
(* Steps shared by the script bodies.                                      *)
(***************************************************************************)
\* missing_vars = [var for var in required_vars if not os.environ.get(var)]
missing_vars(required_vars, e) ==
    SelectSeq(required_vars, LAMBDA var : ~Truthy(e[var]))

\* logging.error(f"Missing required environment variables: {', '.join(missing_vars)}")
MissingVarsRecord(missing) ==
    [level |-> "ERROR",
     msg |-> <<"Missing required environment variables: ">> \o join(", ", missing)]

\* logging.error(f"<what>: {e}")
ErrorRecord(what, e) == [level |-> "ERROR", msg |-> <<what, e>>]

\* The interpreter's report of an exception nothing caught.
Traceback(e) == [level |-> "TRACEBACK", msg |-> e]

\* sys.exit(1) after logging record r
ExitWith(r) ==
    /\ log' = log \cup {r}
    /\ exitStatus' = <<1>>
    /\ pc' = "exited"


\* Mutant of CallStep: the except clause logs the error and forgets sys.exit(1).
CallStep_continues(p, name, q, what) ==
    /\ pc = p
    /\ steps' = Append(steps, name)
    /\ pc' = q
    /\ UNCHANGED exitStatus
    /\ \/ UNCHANGED log
       \/ \E e \in Errors : log' = log \cup {ErrorRecord(what, e)}

\* One external call at position p: it returns and the script goes on to
\* position q, or it raises e and the except clause around it logs and exits.
CallStep(p, name, q, what) ==
    /\ pc = p
    /\ steps' = Append(steps, name)
    /\ \/ /\ pc' = q
          /\ UNCHANGED << log, exitStatus >>
       \/ \E e \in Errors : ExitWith(ErrorRecord(what, e))

(***************************************************************************)
(* gen_text_embedding.py (Seeder).                                         *)
(***************************************************************************)
\* lines 17-28
Seeder_validate ==
    /\ script = "seeder" /\ pc = "start"
    /\ steps' = Append(steps, "validate")
    /\ LET missing == missing_vars(seeder_required_vars, env)
       IN  IF missing # <<>>
           THEN ExitWith(MissingVarsRecord(missing))
           ELSE pc' = "api_key" /\ UNCHANGED << log, exitStatus >>
    /\ UNCHANGED << script, env0, env, collection, seederVars, uiVars >>

\* lines 30-31
Seeder_api_key ==
    /\ script = "seeder" /\ pc = "api_key"
    /\ IF ~Truthy(env["AZURE_OPENAI_API_KEY"])
       THEN /\ \E typed \in PromptInputs :
                 env' = [env EXCEPT !["AZURE_OPENAI_API_KEY"] = typed]
            /\ steps' = Append(steps, "getpass")
       ELSE UNCHANGED << env, steps >>
    /\ pc' = "embeddings"
    /\ UNCHANGED << script, env0, exitStatus, log, collection, seederVars, uiVars >>

\* lines 33-41, 51-53
Seeder_embeddings ==
    /\ script = "seeder"
    /\ CallStep("embeddings", "AzureOpenAIEmbeddings", "test_embedding",
                "Error initializing Azure OpenAI embeddings: ")
    /\ UNCHANGED << script, env0, env, collection, seederVars, uiVars >>

\* lines 43-49
Seeder_test_embedding ==
    /\ script = "seeder"
    /\ CallStep("test_embedding", "embed_query", "ping",
                "Error generating test embedding: ")
    /\ UNCHANGED << script, env0, env, collection, seederVars, uiVars >>

\* lines 57-66
Seeder_ping ==
    /\ script = "seeder"
    /\ CallStep("ping", "ping", "vector_store",
                "Error connecting to MongoDB Atlas: ")
    /\ UNCHANGED << script, env0, env, collection, seederVars, uiVars >>

\* lines 74-85
Seeder_vector_store ==
    /\ script = "seeder"
    /\ CallStep("vector_store", "from_connection_string", "uuids",
                "Error initializing vector store: ")
    /\ UNCHANGED << script, env0, env, collection, seederVars, uiVars >>

\* uuid4() under seed r, i-th draw
uuid4(r, i) == <<"uuid", r, i>>

\* Mutant of generate_uuids: range(len(documents) - 1).
generate_uuids_short(r) == [i \in 1..(Len(documents) - 1) |-> uuid4(r, i)]

\* uuids = [str(uuid4()) for _ in range(len(documents))]
generate_uuids(r) == [i \in 1..Len(documents) |-> uuid4(r, i)]

\* line 132
Seeder_uuids ==
    /\ script = "seeder" /\ pc = "uuids"
    /\ \E r \in UuidSeeds : uuids' = generate_uuids(r)
    /\ pc' = "add_documents"
    /\ UNCHANGED << script, env0, env, exitStatus, log, steps, collection,
                    upsert, uiVars >>

\* The vector-store client's own check of add_documents' arguments, made
\* before it embeds or writes anything.
add_documents_accepts(docs, ids) == Len(ids) = Len(docs)

\* The records that writing the first n of the batch leaves in the collection.
written(stored, docs, ids, n) ==
    { r \in stored : r.id \notin { ids[i] : i \in 1..n } }
        \cup { [id |-> ids[i], doc |-> docs[i]] : i \in 1..n }

\* lines 134-137, 145-147
Seeder_add_documents ==
    /\ script = "seeder" /\ pc = "add_documents"
    /\ steps' = Append(steps, "add_documents")
    /\ LET accepted == add_documents_accepts(documents, uuids)
       IN  /\ upsert' = [documents |-> documents, ids |-> uuids, sent |-> accepted]
           /\ \/ /\ accepted
                 /\ collection' = written(collection, documents, uuids, Len(documents))
                 /\ pc' = "similarity_search"
                 /\ UNCHANGED << log, exitStatus >>
              \/ /\ accepted
                 /\ \E n \in 0..(Len(documents) - 1) :
                       collection' = written(collection, documents, uuids, n)
                 /\ \E e \in Errors :
                       ExitWith(ErrorRecord("Error adding documents to vector store: ", e))
              \/ /\ ~accepted
                 /\ UNCHANGED collection
                 /\ ExitWith(ErrorRecord("Error adding documents to vector store: ",
                                         "Number of ids must equal number of documents."))
    /\ UNCHANGED << script, env0, env, uuids, uiVars >>

\* lines 139-143, 145-147
Seeder_similarity_search ==
    /\ script = "seeder"
    /\ CallStep("similarity_search", "similarity_search", "completed",
                "Error adding documents to vector store: ")
    /\ UNCHANGED << script, env0, env, collection, seederVars, uiVars >>

\* line 149 and the end of the script
Seeder_completed ==
    /\ script = "seeder" /\ pc = "completed"
    /\ pc' = "exited"
    /\ exitStatus' = <<0>>
    /\ UNCHANGED << script, env0, env, log, steps, collection, seederVars, uiVars >>

Seeder ==
    \/ Seeder_validate
    \/ Seeder_api_key
    \/ Seeder_embeddings
    \/ Seeder_test_embedding
    \/ Seeder_ping
    \/ Seeder_vector_store
    \/ Seeder_uuids
    \/ Seeder_add_documents
    \/ Seeder_similarity_search
    \/ Seeder_completed


(***************************************************************************)
(* create_vector_search_index.py (Index Provisioner).  Nothing in this     *)
(* script catches an exception: one that is raised ends the process with   *)
(* the interpreter's traceback and exit status 1.                          *)
(***************************************************************************)
\* An uncaught exception e
Uncaught(e) == ExitWith(Traceback(e))

\* One call of the provisioner at position p that returns (on to q) or raises.
ProvisionerCall(p, name, q) ==
    /\ script = "provisioner" /\ pc = p
    /\ steps' = Append(steps, name)
    /\ \/ pc' = q /\ UNCHANGED << log, exitStatus >>
       \/ \E e \in Errors : Uncaught(<<e>>)

\* lines 10-11
Provisioner_api_key ==
    /\ script = "provisioner" /\ pc = "start"
    /\ IF ~Truthy(env["AZURE_OPENAI_API_KEY"])
       THEN /\ \E typed \in PromptInputs :
                 env' = [env EXCEPT !["AZURE_OPENAI_API_KEY"] = typed]
            /\ steps' = Append(steps, "getpass")
       ELSE UNCHANGED << env, steps >>
    /\ pc' = "embeddings"
    /\ UNCHANGED << script, env0, exitStatus, log, collection, seederVars, uiVars >>

\* The keys whose os.environ[...] subscript raises KeyError, in the order the
\* constructor's arguments are evaluated.
unset_subscripts(e) ==
    SelectSeq(provisioner_subscripted_vars, LAMBDA var : e[var] = Unset)

\* lines 13-19
Provisioner_embeddings ==
    /\ script = "provisioner" /\ pc = "embeddings"
    /\ LET unset == unset_subscripts(env)
       IN  IF unset # <<>>
           THEN /\ Uncaught(<<"KeyError: ", unset[1]>>)
                /\ UNCHANGED steps
           ELSE /\ steps' = Append(steps, "AzureOpenAIEmbeddings")
                /\ \/ pc' = "client" /\ UNCHANGED << log, exitStatus >>
                   \/ \E e \in Errors : Uncaught(<<e>>)
    /\ UNCHANGED << script, env0, env, collection, seederVars, uiVars >>

\* lines 21-24: os.environ.get gives None for an unset key, and MongoClient
\* takes None for its default host
Provisioner_client ==
    /\ ProvisionerCall("client", "MongoClient", "vector_store")
    /\ UNCHANGED << script, env0, env, collection, seederVars, uiVars >>

\* lines 30-37
Provisioner_vector_store ==
    /\ ProvisionerCall("vector_store", "MongoDBAtlasVectorSearch", "create_index")
    /\ UNCHANGED << script, env0, env, collection, seederVars, uiVars >>

\* line 40
Provisioner_create_index ==
    /\ ProvisionerCall("create_index", "create_vector_search_index", "completed")
    /\ UNCHANGED << script, env0, env, collection, seederVars, uiVars >>

\* the end of the script
Provisioner_completed ==
    /\ script = "provisioner" /\ pc = "completed"
    /\ pc' = "exited"
    /\ exitStatus' = <<0>>
    /\ UNCHANGED << script, env0, env, log, steps, collection, seederVars, uiVars >>

Provisioner ==
    \/ Provisioner_api_key
    \/ Provisioner_embeddings
    \/ Provisioner_client
    \/ Provisioner_vector_store
    \/ Provisioner_create_index
    \/ Provisioner_completed

(***************************************************************************)
(* vector_search_chatbot.py (Interactive Search UI): the module body.      *)
(***************************************************************************)
\* lines 16-28
UI_validate ==
    /\ script = "ui" /\ pc = "start"
    /\ steps' = Append(steps, "validate")
    /\ LET missing == missing_vars(ui_required_vars, env)
       IN  IF missing # <<>>
           THEN ExitWith(MissingVarsRecord(missing))
           ELSE pc' = "embeddings" /\ UNCHANGED << log, exitStatus >>
    /\ UNCHANGED << script, env0, env, collection, seederVars, uiVars >>

\* lines 30-41
UI_embeddings ==
    /\ script = "ui"
    /\ CallStep("embeddings", "AzureOpenAIEmbeddings", "ping",
                "Error initializing Azure OpenAI embeddings: ")
    /\ UNCHANGED << script, env0, env, collection, seederVars, uiVars >>

\* lines 43-52
UI_ping ==
    /\ script = "ui"
    /\ CallStep("ping", "ping", "vector_store",
                "Error connecting to MongoDB Atlas: ")
    /\ UNCHANGED << script, env0, env, collection, seederVars, uiVars >>

\* lines 59-70
UI_vector_store ==
    /\ script = "ui"
    /\ CallStep("vector_store", "from_connection_string", "blocks",
                "Error initializing vector store: ")
    /\ UNCHANGED << script, env0, env, collection, seederVars, uiVars >>

\* lines 99-170: the components are built, the handlers are wired, the
\* conversation is set to the welcome message and the server starts
UI_launch ==
    /\ script = "ui" /\ pc = "blocks"
    /\ chatbot' = get_welcome_message
    /\ query_input' = <<>>
    /\ num_results_slider' = SliderDefault
    /\ steps' = Append(steps, "launch")
    /\ pc' = "serving"
    /\ UNCHANGED << script, env0, env, exitStatus, log, collection, seederVars,
                    call, reply >>


(***************************************************************************)
(* vector_search_chatbot.py: the event handlers.  An invocation of         *)
(* on_submit is in one of three positions: dispatched (the inputs have     *)
(* been read from the components), searching (similarity_search has been   *)
(* called and has not come back), or over (call = NoCall, the UI is idle). *)
(***************************************************************************)
Idle == pc = "serving" /\ call = NoCall
Searching == pc = "serving" /\ call # NoCall /\ call.stage = "searching"

NoRequest == [query |-> <<>>, k |-> 0]

\* inputs=[query_input, chatbot, num_results_slider]
on_submit_inputs(trigger) ==
    [stage |-> "dispatched", trigger |-> trigger, message |-> query_input,
     chat_history |-> chatbot, num_results |-> num_results_slider,
     request |-> NoRequest]

\* line 145: message.strip() == ""
on_submit_rejects(message) == strip(message) = <<>>

\* line 77: not query.strip()
search_documents_rejects(query) == strip(query) = <<>>

\* line 78
invalid_query_entry(query) == <<query, <<"Please enter a valid search query">>>>

\* Mutant of similarity_search_request: k is left at search_documents' default.
similarity_search_request_default(query, num_results) ==
    [query |-> query, k |-> DefaultNumResults]

\* line 81: vector_store.similarity_search(query, k=num_results)
similarity_search_request(query, num_results) == [query |-> query, k |-> num_results]

\* Mutant of document_block: enumerate(results) without its start of 1.
document_block_zero_based(i, doc) ==
    << "**Document ", str(i - 1), "**\n",
       "**Content:** ", doc.page_content, "\n",
       "**Source:** ", metadata_get(doc.metadata, "source", "Unknown"), "\n\n" >>

\* lines 88-90: the block of the i-th document
document_block(i, doc) ==
    << "**Document ", str(i), "**\n",
       "**Content:** ", doc.page_content, "\n",
       "**Source:** ", metadata_get(doc.metadata, "source", "Unknown"), "\n\n" >>

\* lines 87-90: the blocks of results[i..], numbered from i
RECURSIVE document_blocks(_, _)
document_blocks(results, i) ==
    IF i > Len(results) THEN <<>>
    ELSE document_block(i, results[i]) \o document_blocks(results, i + 1)

\* lines 83-92
success_entry(query, results) ==
    IF results = <<>>
    THEN <<query, <<"I couldn't find any relevant information for your query.">>>>
    ELSE <<query, <<"Here's what I found:\n\n">> \o document_blocks(results, 1)>>

\* Mutant of failure_entry: the message leaves out str(e).
failure_entry_generic(query, e) ==
    <<query, <<"I encountered an error while searching">>>>

\* lines 93-96
failure_entry(query, e) ==
    <<query, <<"I encountered an error while searching: ", e>>>>

\* What the vector store can return for k: stored documents, each record at
\* most once, at most k of them, in the order the service ranks them.
similarity_search_results(stored, k) ==
    LET n == IF k < Cardinality(stored) THEN k ELSE Cardinality(stored)
    IN  { [i \in 1..Len(rs) |-> rs[i].doc] :
            rs \in { t \in SeqsUpTo(stored, n) : NoRepeat(t) } }

NoResults == <<>>

\* lines 149-153: submit_button.click(on_submit, ...)
UI_submit_button_click ==
    /\ Idle
    /\ Len(chatbot) <= MaxHistory
    /\ call' = on_submit_inputs("click")
    /\ UNCHANGED << script, env0, env, pc, exitStatus, log, steps, collection,
                    seederVars, chatbot, query_input, num_results_slider, reply >>

\* lines 155-159: query_input.submit(on_submit, ...)
UI_query_input_submit ==
    /\ Idle
    /\ Len(chatbot) <= MaxHistory
    /\ call' = on_submit_inputs("submit")
    /\ UNCHANGED << script, env0, env, pc, exitStatus, log, steps, collection,
                    seederVars, chatbot, query_input, num_results_slider, reply >>

\* Mutant of on_submit_outputs: the handler returns nothing for the text box.
on_submit_outputs_keeps_text(text, conversation) ==
    /\ UNCHANGED query_input
    /\ chatbot' = conversation
    /\ call' = NoCall
    /\ reply' = NoReply

\* outputs=[query_input, chatbot]
on_submit_outputs(text, conversation) ==
    /\ query_input' = text
    /\ chatbot' = conversation
    /\ call' = NoCall
    /\ reply' = NoReply

\* lines 144-147 and 72-81: on_submit up to its return or up to the call of
\* similarity_search
UI_on_submit ==
    /\ pc = "serving" /\ call # NoCall /\ call.stage = "dispatched"
    /\ IF on_submit_rejects(call.message)
       THEN on_submit_outputs(<<>>, call.chat_history)
       ELSE IF search_documents_rejects(call.message)
       THEN on_submit_outputs(<<>>, Append(call.chat_history,
                                            invalid_query_entry(call.message)))
       ELSE /\ call' = [call EXCEPT
                           !.stage = "searching",
                           !.request = similarity_search_request(call.message,
                                                                 call.num_results)]
            /\ UNCHANGED << query_input, chatbot, reply >>
    /\ UNCHANGED << script, env0, env, pc, exitStatus, log, steps, collection,
                    seederVars, num_results_slider >>

\* similarity_search returns
VectorStore_returns ==
    /\ Searching /\ reply = NoReply
    /\ \E results \in similarity_search_results(collection, call.request.k) :
          reply' = [kind |-> "ok", results |-> results, error |-> ""]
    /\ UNCHANGED << script, env0, env, pc, exitStatus, log, steps, collection,
                    seederVars, chatbot, query_input, num_results_slider, call >>

\* similarity_search raises
VectorStore_raises ==
    /\ Searching /\ reply = NoReply
    /\ \E e \in Errors :
          reply' = [kind |-> "raise", results |-> NoResults, error |-> e]
    /\ UNCHANGED << script, env0, env, pc, exitStatus, log, steps, collection,
                    seederVars, chatbot, query_input, num_results_slider, call >>

\* lines 83-96 and 147: search_documents from the return of similarity_search,
\* and on_submit's return
UI_search_documents_returns ==
    /\ Searching /\ reply # NoReply
    /\ IF reply.kind = "raise"
       THEN /\ log' = log \cup {ErrorRecord("Error during search: ", reply.error)}
            /\ on_submit_outputs(<<>>, Append(call.chat_history,
                                               failure_entry(call.message, reply.error)))
       ELSE /\ UNCHANGED log
            /\ on_submit_outputs(<<>>, Append(call.chat_history,
                                               success_entry(call.message, reply.results)))
    /\ UNCHANGED << script, env0, env, pc, exitStatus, steps, collection,
                    seederVars, num_results_slider >>

\* Mutant of UI_clear_button_click: the welcome message is appended to the
\* conversation instead of replacing it.
UI_clear_button_click_appends ==
    /\ Idle
    /\ Len(chatbot) <= MaxHistory
    /\ chatbot' = chatbot \o get_welcome_message
    /\ UNCHANGED << script, env0, env, pc, exitStatus, log, steps, collection,
                    seederVars, query_input, num_results_slider, call, reply >>

\* lines 161-166: clear_button.click(lambda: get_welcome_message(), outputs=[chatbot])
UI_clear_button_click ==
    /\ Idle
    /\ chatbot' = get_welcome_message
    /\ UNCHANGED << script, env0, env, pc, exitStatus, log, steps, collection,
                    seederVars, query_input, num_results_slider, call, reply >>

\* The user edits the text of the query box (lines 112-117).
UI_type ==
    /\ Idle
    /\ \E text \in Queries \ {query_input} : query_input' = text
    /\ UNCHANGED << script, env0, env, pc, exitStatus, log, steps, collection,
                    seederVars, chatbot, num_results_slider, call, reply >>

\* The user moves the slider (lines 120-126).
UI_move_slider ==
    /\ Idle
    /\ \E k \in (SliderMin..SliderMax) \ {num_results_slider} :
          num_results_slider' = k
    /\ UNCHANGED << script, env0, env, pc, exitStatus, log, steps, collection,
                    seederVars, chatbot, query_input, call, reply >>

UI ==
    \/ UI_validate
    \/ UI_embeddings
    \/ UI_ping
    \/ UI_vector_store
    \/ UI_launch
    \/ UI_submit_button_click
    \/ UI_query_input_submit
    \/ UI_on_submit
    \/ VectorStore_returns
    \/ VectorStore_raises
    \/ UI_search_documents_returns
    \/ UI_clear_button_click
    \/ UI_type
    \/ UI_move_slider

(***************************************************************************)
(* The specifications.                                                     *)
(***************************************************************************)
Next == Provisioner \/ Seeder \/ UI

Spec == Init /\ [][Next]_vars

\* An invocation of on_submit that has been dispatched runs on: the event
\* loop executes the handler, the blocking call to the vector store comes
\* back (with a result or with the client's error), and the handler returns.
FairSpec ==
    /\ Spec
    /\ WF_vars(UI_on_submit)
    /\ WF_vars(VectorStore_returns \/ VectorStore_raises)
    /\ WF_vars(UI_search_documents_returns)


(***************************************************************************)
(* Properties.  Their vocabulary is written out here and does not use the  *)
(* operators of the model above, so that a change of the model shows.      *)
(***************************************************************************)
\* Calls that go to the embedding service or to the database.
NetworkSteps ==
    { "embed_query", "ping", "from_connection_string", "add_documents",
      "similarity_search", "create_vector_search_index" }

\* The keys each validating script requires.
RequiredKeys(s) ==
    IF s = "seeder"
    THEN { "AZURE_OPENAI_ENDPOINT", "AZURE_OPENAI_DEPLOYMENT_NAME",
           "AZURE_OPENAI_API_VERSION", "MONGODB_ATLAS_CLUSTER_URI" }
    ELSE { "AZURE_OPENAI_ENDPOINT", "AZURE_OPENAI_DEPLOYMENT_NAME",
           "AZURE_OPENAI_API_VERSION", "AZURE_OPENAI_API_KEY",
           "MONGODB_ATLAS_CLUSTER_URI" }

\* The keys of K that were unset or empty when the process started.
MissingAtStartup(K) == { v \in K : env0[v] = Unset \/ env0[v] = "" }

\* The names a "Missing required environment variables" message lists: the
\* tokens after the prefix, separators skipped.
NamesListed(msg) == { msg[i] : i \in { j \in 2..Len(msg) : j % 2 = 0 } }

\* r reports exactly the keys of M, each once, separated by ", ".
ReportsExactly(r, M) ==
    /\ r.level = "ERROR"
    /\ r.msg[1] = "Missing required environment variables: "
    /\ Len(r.msg) = 2 * Cardinality(M)
    /\ NamesListed(r.msg) = M
    /\ \A i \in 2..Len(r.msg) : i % 2 = 1 => r.msg[i] = ", "

\* C1: in the Seeder and in the UI, when a non-empty subset of the script's
\* required variables is unset or empty at startup, the script logs exactly
\* the missing names, exits with status 1 and makes no network call.
C1_MissingConfigFailsFast ==
    \A s \in {"seeder", "ui"} :
        LET M == MissingAtStartup(RequiredKeys(s))
        IN  (script = s /\ M # {}) =>
               /\ Range(steps) \cap NetworkSteps = {}
               /\ pc \in {"start", "exited"}
               /\ pc = "start" => (log = {} /\ exitStatus = <<>>)
               /\ pc = "exited" =>
                     /\ exitStatus = <<1>>
                     /\ \E r \in log : log = {r} /\ ReportsExactly(r, M)

C1_Witness ==
    /\ script = "ui" /\ pc = "exited"
    /\ MissingAtStartup(RequiredKeys("ui")) =
          {"AZURE_OPENAI_API_KEY", "MONGODB_ATLAS_CLUSTER_URI"}
    /\ env0["AZURE_OPENAI_API_KEY"] = ""
    /\ env0["MONGODB_ATLAS_CLUSTER_URI"] = Unset

\* A text of blanks only.
Blank(m) == \A i \in DOMAIN m : m[i] \in {" ", "\t", "\n"}

Dispatched == pc = "serving" /\ call # NoCall /\ call.stage = "dispatched"

\* C2: submitting an empty or whitespace-only query makes no call to the
\* vector store and leaves the conversation with exactly one new entry,
\* whose text tells the user to enter a valid query.
C2_BlankQueryGetsInstruction ==
    [][ (Dispatched /\ Blank(call.message)) =>
            /\ call' = NoCall
            /\ Len(chatbot') = Len(chatbot) + 1
            /\ SubSeq(chatbot', 1, Len(chatbot)) = chatbot
            /\ chatbot'[Len(chatbot')][2] = <<"Please enter a valid search query">>
      ]_vars

WelcomeText ==
    <<"Hello! I'm your vector search assistant. Ask me something about the documents in the database!">>

\* C3: after any sequence of submissions, clear leaves the conversation
\* equal to exactly one entry, the fixed welcome message; it calls the
\* vector store for nothing and leaves the stored collection unchanged.
C3_ClearResetsToWelcome ==
    [][ (Idle /\ call' = NoCall /\ chatbot' # chatbot) =>
            /\ Len(chatbot') = 1
            /\ chatbot'[1] = <<None, WelcomeText>>
            /\ collection' = collection
            /\ reply' = NoReply
            /\ pc' = "serving"
      ]_vars

\* A conversation that a clear has reset after a failed search was shown.
C3_Witness ==
    /\ Idle
    /\ chatbot = << <<None, WelcomeText>> >>
    /\ \E r \in log : r.msg[1] = "Error during search: "

\* C4: when similarity_search raises during a submission, the handler
\* appends exactly one entry whose message contains the error text and the
\* UI is idle again; the process does not terminate; every submission in
\* flight is eventually followed by idle.
C4_FailureIsRecovered ==
    /\ [][ (Searching /\ reply.kind = "raise") =>
              /\ pc' = "serving" /\ exitStatus' = <<>>
              /\ call' = NoCall
              /\ Len(chatbot') = Len(call.chat_history) + 1
              /\ SubSeq(chatbot', 1, Len(call.chat_history)) = call.chat_history
              /\ \E i \in DOMAIN chatbot'[Len(chatbot')][2] :
                    chatbot'[Len(chatbot')][2][i] = reply.error
         ]_vars
    /\ [][ pc = "serving" => (pc' = "serving" /\ exitStatus' = <<>>) ]_vars
    /\ (pc = "serving" /\ call # NoCall) ~> Idle

\* A failed search followed by a later search that succeeded.
C4_Witness ==
    /\ Idle /\ Len(chatbot) = 3
    /\ chatbot[2][2] = <<"I encountered an error while searching: ", "timed out">>
    /\ chatbot[3][2][1] = "Here's what I found:\n\n"

\* The source a listing shows for document d.
ShownSource(d) ==
    IF "source" \in DOMAIN d.metadata THEN d.metadata.source ELSE "Unknown"

\* Text lists the documents of rs, each once, numbered 1..n in the order of rs.
ListsInOrder(text, rs) ==
    /\ Len(text) = 1 + 9 * Len(rs)
    /\ text[1] = "Here's what I found:\n\n"
    /\ \A i \in 1..Len(rs) :
          LET b == 1 + 9 * (i - 1)
          IN  /\ text[b + 1] = "**Document "
              /\ text[b + 2] = <<"1", "2", "3", "4", "5", "6", "7", "8", "9", "10">>[i]
              /\ text[b + 5] = rs[i].page_content
              /\ text[b + 8] = ShownSource(rs[i])

\* C5: a successful search of a non-blank query appends exactly one entry:
\* for a non-empty result it lists every returned document once, numbered
\* 1..n in the service's order, with content and source ("Unknown" when the
\* metadata has none); for an empty result it is the "nothing found" message.
C5_SuccessListsResults ==
    [][ (Searching /\ reply.kind = "ok") =>
            LET last == chatbot'[Len(chatbot')]
            IN  /\ call' = NoCall
                /\ Len(chatbot') = Len(call.chat_history) + 1
                /\ SubSeq(chatbot', 1, Len(call.chat_history)) = call.chat_history
                /\ last[1] = call.message
                /\ IF reply.results = <<>>
                   THEN last[2] = <<"I couldn't find any relevant information for your query.">>
                   ELSE ListsInOrder(last[2], reply.results)
      ]_vars

\* An empty result followed by a listing of two documents, the first of
\* them without a source.
C5_Witness ==
    /\ Idle /\ Len(chatbot) = 3
    /\ chatbot[2][2] = <<"I couldn't find any relevant information for your query.">>
    /\ Len(chatbot[3][2]) = 19
    /\ chatbot[3][2][9] = "Unknown"
    /\ chatbot[3][2][18] = "news"

\* The steps the Seeder's claim names, in their order.
SeederOrder ==
    << "validate", "embed_query", "ping", "from_connection_string",
       "add_documents", "similarity_search" >>

\* The step whose except clause logs a message starting with what.
StepsLogging(what) ==
    IF what = "Missing required environment variables: " THEN {"validate"}
    ELSE IF what = "Error initializing Azure OpenAI embeddings: " THEN {"AzureOpenAIEmbeddings"}
    ELSE IF what = "Error generating test embedding: " THEN {"embed_query"}
    ELSE IF what = "Error connecting to MongoDB Atlas: " THEN {"ping"}
    ELSE IF what = "Error initializing vector store: " THEN {"from_connection_string"}
    ELSE IF what = "Error adding documents to vector store: "
         THEN {"add_documents", "similarity_search"}
    ELSE {}

\* C6: the Seeder runs validate, test embedding, ping, vector-store
\* construction, upsert of the 10 documents, smoke-test query in that order;
\* a failure at a step ends the run with status 1 with no later step and no
\* retry; the run ends successfully only when every step succeeded.
C6_SeederFailsFastInOrder ==
    script = "seeder" =>
        LET named == SelectSeq(steps, LAMBDA x : x \in Range(SeederOrder))
        IN  /\ Len(named) <= Len(SeederOrder)
            /\ named = SubSeq(SeederOrder, 1, Len(named))
            /\ upsert.sent => Len(upsert.documents) = 10
            /\ log # {} =>
                  /\ pc = "exited" /\ exitStatus = <<1>>
                  /\ \E r \in log :
                        /\ log = {r}
                        /\ steps[Len(steps)] \in StepsLogging(r.msg[1])
            /\ exitStatus = <<1>> => log # {}
            /\ exitStatus = <<0>> => (named = SeederOrder /\ log = {})
            /\ exitStatus # <<>> <=> pc = "exited"

\* A run that got as far as the smoke-test query and failed there.
C6_Witness ==
    /\ script = "seeder" /\ exitStatus = <<1>>
    /\ steps[Len(steps)] = "similarity_search"
    /\ upsert.sent

\* The keys the Index Provisioner needs, as the claim lists them.
ProvisionerKeys ==
    { "AZURE_OPENAI_ENDPOINT", "AZURE_OPENAI_DEPLOYMENT_NAME",
      "AZURE_OPENAI_API_VERSION", "MONGODB_ATLAS_CLUSTER_URI" }

\* C7: the Index Provisioner fails fast when a required key is absent: it
\* reports the missing keys, exits non-zero and neither constructs the
\* database client nor requests the index.
C7_ProvisionerValidates ==
    LET M == MissingAtStartup(ProvisionerKeys)
    IN  (script = "provisioner" /\ M # {}) =>
           /\ "MongoClient" \notin Range(steps)
           /\ "create_vector_search_index" \notin Range(steps)
           /\ pc = "exited" =>
                 /\ exitStatus = <<1>>
                 /\ \E r \in log : ReportsExactly(r, M)

DocumentsListed(text) ==
    Cardinality({ i \in DOMAIN text : text[i] = "**Document " })

\* C9: for every submission that reaches the vector store, the k passed to
\* similarity_search is the slider value supplied with that submission (an
\* integer in 1..10, 3 when the UI starts), and the appended response lists
\* at most k documents.
C9_KIsTheSliderValue ==
    /\ [](num_results_slider \in 1..10)
    /\ [][ (pc # "serving" /\ pc' = "serving") => num_results_slider' = 3 ]_vars
    /\ [][ (Idle /\ call' # NoCall) =>
              call'.num_results = num_results_slider ]_vars
    /\ [][ (Dispatched /\ call' # NoCall) =>
              /\ call'.stage = "searching"
              /\ call'.request.k = num_results_slider
              /\ call'.request.query = call.message ]_vars
    /\ [][ (Searching /\ reply.kind = "ok") =>
              DocumentsListed(chatbot'[Len(chatbot')][2]) <= call.request.k ]_vars

\* A search with k = 1 that came back with one document, after an earlier
\* search whose response listed two.
C9_Witness ==
    /\ Searching /\ call.request.k = 1
    /\ Len(reply.results) = 1
    /\ Len(call.chat_history) = 2
    /\ DocumentsListed(call.chat_history[2][2]) = 2

\* C10: under submissions the conversation is append-only: the conversation
\* after the handler returns has the one before it as a prefix and is longer
\* by at most one entry; a non-blank submission adds exactly one entry whose
\* first element is the submitted text; the input field is reset to the
\* empty string by every submission; only clear shortens or rewrites.
C10_AppendOnly ==
    /\ [][ (pc = "serving" /\ call # NoCall /\ call' = NoCall) =>
              /\ IsPrefix(chatbot, chatbot')
              /\ Len(chatbot') <= Len(chatbot) + 1
              /\ query_input' = <<>>
              /\ ~Blank(call.message) =>
                    /\ Len(chatbot') = Len(chatbot) + 1
                    /\ chatbot'[Len(chatbot')][1] = call.message
         ]_vars
    /\ [][ (pc = "serving" /\ call' # NoCall) => chatbot' = chatbot ]_vars
    /\ [][ (pc = "serving" /\ ~IsPrefix(chatbot, chatbot')) =>
              (Idle /\ chatbot' = << <<None, WelcomeText>> >>) ]_vars

\* Two searches of a padded query are in the conversation, each under the
\* text as it was typed, and the box is empty.
C10_Witness ==
    /\ Idle /\ Len(chatbot) = 3
    /\ chatbot[2][1] = <<" ", "a", " ">>
    /\ chatbot[3][1] = <<" ", "a", " ">>
    /\ query_input = <<>>

=============================================================================
